---- MODULE Spec2Model ----
(***************************************************************************)
(* Model of the pluggable vector store of ms-ai-rag: the three adapters    *)
(* (ChromaDB, Pinecone, MongoDB) behind the VectorStoreAdapter port, and   *)
(* the Pinecone collection-name validation.                                *)
(*                                                                         *)
(* A collection name is a sequence of characters; a character is a one     *)
(* element token of Chars.  A backend store maps the names of the          *)
(* collections that exist to the set of records each holds.                *)
(***************************************************************************)
EXTENDS Integers, Sequences, FiniteSets, TLC

VARIABLES backend, store, collections, everCreated, last, nops, vname, vres,
          handler, calls, resp, ready, pdf, pdfres, http, adapters, uploads

vars == <<backend, store, collections, everCreated, last, nops, vname, vres,
          handler, calls, resp, ready, pdf, pdfres, http, adapters, uploads>>

----------------------------------------------------------------------------
(* Bounds of the model.                                                    *)

MaxNameLen == 3

MaxOps == 3

MaxTopK == 2

----------------------------------------------------------------------------
(* Characters and the str methods the validation uses.                     *)

\* "e_acute" stands for a non-ASCII letter: str.isalnum() is true of it.
Chars == {"a", "b", "A", "1", "-", "_", " ", "!", "e_acute"}

\* str.lower() on one character
LowerChar(c) == IF c = "A" THEN "a" ELSE c

\* str.lower()
Lower(s) == [i \in 1..Len(s) |-> LowerChar(s[i])]

\* str.replace(old, new) for one-character old and new
Replace(s, old, new) == [i \in 1..Len(s) |-> IF s[i] = old THEN new ELSE s[i]]

\* str.isalnum() on one character (Unicode letters and digits)
IsAlnum(c) == c \in {"a", "b", "A", "1", "e_acute"}

\* `x in s` for a one-character x
Contains(s, c) == \E i \in 1..Len(s) : s[i] = c

\* _validate_index_name whose messages propose the name without .lower()
ValidateIndexNameExampleAsTyped(index_name) ==
    IF Contains(index_name, " ")
    THEN [ok |-> FALSE, kind |-> "space", value |-> index_name,
          example |-> Replace(index_name, " ", "-"), special |-> {}]
    ELSE IF Contains(index_name, "_")
    THEN [ok |-> FALSE, kind |-> "underscore", value |-> index_name,
          example |-> Replace(index_name, "_", "-"), special |-> {}]
    ELSE LET validated == Lower(index_name) IN
         IF ~ \A i \in 1..Len(validated) :
                 IsAlnum(validated[i]) \/ validated[i] = "-"
         THEN [ok |-> FALSE, kind |-> "special", value |-> index_name,
               example |-> <<>>,
               special |-> {validated[i] : i \in
                              {j \in 1..Len(validated) :
                                 ~ (IsAlnum(validated[j]) \/ validated[j] = "-")}}]
         ELSE [ok |-> TRUE, kind |-> "none", value |-> validated,
               example |-> <<>>, special |-> {}]

\* PineconeAdapter._validate_index_name: the name returned, or the
\* ValueError raised with the example name its message proposes.
ValidateIndexName(index_name) ==
    IF Contains(index_name, " ")
    THEN [ok |-> FALSE, kind |-> "space", value |-> index_name,
          example |-> Lower(Replace(index_name, " ", "-")), special |-> {}]
    ELSE IF Contains(index_name, "_")
    THEN [ok |-> FALSE, kind |-> "underscore", value |-> index_name,
          example |-> Lower(Replace(index_name, "_", "-")), special |-> {}]
    ELSE LET validated == Lower(index_name) IN
         IF ~ \A i \in 1..Len(validated) :
                 IsAlnum(validated[i]) \/ validated[i] = "-"
         THEN [ok |-> FALSE, kind |-> "special", value |-> index_name,
               example |-> <<>>,
               special |-> {validated[i] : i \in
                              {j \in 1..Len(validated) :
                                 ~ (IsAlnum(validated[j]) \/ validated[j] = "-")}}]
         ELSE [ok |-> TRUE, kind |-> "none", value |-> validated,
               example |-> <<>>, special |-> {}]

----------------------------------------------------------------------------
(* Documents, embeddings and scores.                                       *)

\* Document.doc_id = None
NoneId == "None"

Contents == {"alpha", "beta"}

EmptyMeta == [k \in {} |-> ""]

\* Document(content, metadata, doc_id)
Doc(content, metadata, doc_id) ==
    [content |-> content, metadata |-> metadata, doc_id |-> doc_id]

\* Two documents without a doc_id, and two that share the doc_id "x", one of
\* them with a metadata key named "content".
DocA == Doc("alpha", EmptyMeta, NoneId)

DocB == Doc("beta", EmptyMeta, NoneId)

DocX == Doc("beta", EmptyMeta, "x")

DocM == Doc("alpha", [k \in {"content"} |-> "beta"], "x")

Docs == {DocA, DocB, DocX, DocM}

\* The batches add_documents is called with: every single document, two
\* documents that get distinct ids, and two that carry the same doc_id.
DocLists == {<<d>> : d \in Docs} \cup {<<DocA, DocB>>, <<DocX, DocM>>}

\* The names the adapters are called with: a name, the name that differs
\* from it in case only, and one with an underscore.
CollNames == {<<"a">>, <<"A">>, <<"a", "_">>}

\* SentenceTransformer.encode: deterministic, every vector of norm 5.
Embed(text) == IF text = "alpha" THEN <<3, 4>> ELSE <<4, 3>>

Dot(u, v) == u[1] * v[1] + u[2] * v[2]

Isqrt(n) == CHOOSE r \in 0..n : r * r <= n /\ (r + 1) * (r + 1) > n

Norm(u) == Isqrt(Dot(u, u))

\* Scores are kept as integers: the real score times ScoreScale.
ScoreScale == 5 * 5

\* cosine similarity, scaled
Cosine(u, v) == (Dot(u, v) * ScoreScale) \div (Norm(u) * Norm(v))

Min(a, b) == IF a <= b THEN a ELSE b

Take(s, n) == SubSeq(s, 1, Min(n, Len(s)))

Perms(S) == {p \in [1..Cardinality(S) -> S] :
               \A i, j \in 1..Cardinality(S) : i # j => p[i] # p[j]}

\* f"doc_{i}" for the 0-based position i
SynthId(i) == "doc_" \o ToString(i)

\* The outcome of one adapter call: the store and the adapter's cache after
\* it, whether it returned or raised, and what it returned.
Outcome(st, cache, outcome, err, ret) ==
    [store |-> st, cache |-> cache, outcome |-> outcome, err |-> err, ret |-> ret]

Returned(st, cache, ret) == Outcome(st, cache, "ok", "none", ret)

Raised(st, cache, err) == Outcome(st, cache, "raise", err, <<>>)

\* SearchResult(content, score, metadata)
SearchResult(content, score, metadata) ==
    [content |-> content, score |-> score, metadata |-> metadata]

----------------------------------------------------------------------------
(* ChromaDBAdapter.  store is the client's collections, cache the          *)
(* adapter's self.collections.                                             *)

\* ids = [doc.doc_id or f"doc_{i}" for i, doc in enumerate(documents)]
ChromaIds(documents) ==
    [i \in 1..Len(documents) |->
        IF documents[i].doc_id = NoneId THEN SynthId(i - 1)
        ELSE documents[i].doc_id]

\* collection.add: ids repeated in the batch raise DuplicateIDError; a
\* record whose id is already stored is left as it is.
ChromaCollectionAdd(recs, ids, documents) ==
    IF \E i, j \in 1..Len(ids) : i # j /\ ids[i] = ids[j]
    THEN [ok |-> FALSE, recs |-> recs]
    ELSE [ok |-> TRUE,
          recs |-> recs \cup
             {[id |-> ids[i],
               content |-> documents[i].content,
               embedding |-> Embed(documents[i].content),
               metadata |-> documents[i].metadata] :
                 i \in {j \in 1..Len(ids) : \A r \in recs : r.id # ids[j]}}]

ChromaAddDocuments(st, cache, documents, coll, fail) ==
    IF fail # "none" THEN {Raised(st, cache, "BackendError")}
    ELSE
    LET st1 == IF coll \in cache \/ coll \in DOMAIN st THEN st
               ELSE [c \in DOMAIN st \cup {coll} |->
                        IF c = coll THEN {} ELSE st[c]]
        cache1 == cache \cup {coll}
        ids == ChromaIds(documents)
        added == ChromaCollectionAdd(st1[coll], ids, documents)
        st2 == [st1 EXCEPT ![coll] = added.recs]
    IN  IF added.ok THEN {Returned(st2, cache1, ids)}
        ELSE {Raised(st1, cache1, "DuplicateIDError")}

\* collection.query(n_results): the n nearest records, nearest first, with
\* their cosine distances.
ChromaQuery(recs, query_embedding, n_results) ==
    LET scored == {[rec |-> r,
                    distance |-> ScoreScale - Cosine(r.embedding, query_embedding)] :
                      r \in recs}
    IN  {Take(p, n_results) :
           p \in {q \in Perms(scored) :
                   \A i, j \in 1..Len(q) : i < j => q[i].distance <= q[j].distance}}

\* score = distance: the distance passed on as the score
ChromaScoreFlipped(distance) == distance

\* score = 1 - distance
ChromaScore(distance) == ScoreScale - distance

ChromaSearch(st, cache, query, coll, top_k, fail) ==
    IF coll \notin cache THEN {Returned(st, cache, <<>>)}
    ELSE IF fail # "none" THEN {Raised(st, cache, "BackendError")}
    ELSE {Returned(st, cache,
                   [i \in 1..Len(hits) |->
                      SearchResult(hits[i].rec.content,
                                   ChromaScore(hits[i].distance),
                                   hits[i].rec.metadata)]) :
            hits \in ChromaQuery(st[coll], Embed(query), top_k)}

ChromaDeleteDocuments(st, cache, doc_ids, coll, fail) ==
    IF coll \notin cache THEN {Returned(st, cache, FALSE)}
    ELSE IF fail # "none" THEN {Returned(st, cache, FALSE)}
    ELSE {Returned([st EXCEPT ![coll] = {r \in st[coll] : r.id \notin doc_ids}],
                   cache, TRUE)}

\* delete_collection that reports a collection it does not know as a failure
ChromaDeleteCollectionStrict(st, cache, coll, fail) ==
    IF coll \notin cache THEN {Returned(st, cache, FALSE)}
    ELSE IF fail # "none" THEN {Returned(st, cache, FALSE)}
    ELSE {Returned([c \in DOMAIN st \ {coll} |-> st[c]], cache \ {coll}, TRUE)}

ChromaDeleteCollection(st, cache, coll, fail) ==
    IF coll \notin cache THEN {Returned(st, cache, TRUE)}
    ELSE IF fail # "none" THEN {Returned(st, cache, FALSE)}
    ELSE {Returned([c \in DOMAIN st \ {coll} |-> st[c]], cache \ {coll}, TRUE)}

\* return self.client is not None
ChromaHealthCheck(st, cache, kind) == {Returned(st, cache, TRUE)}

----------------------------------------------------------------------------
(* MongoDBAdapter.  store is the database: its collections and their       *)
(* documents, keyed by _id (the field id here).                            *)

\* doc_id = doc.doc_id or f"doc_{len(documents_to_insert)}"
MongoIds(documents) ==
    [i \in 1..Len(documents) |->
        IF documents[i].doc_id = NoneId THEN SynthId(i - 1)
        ELSE documents[i].doc_id]

\* documents_to_insert
MongoPrepared(documents) ==
    [i \in 1..Len(documents) |->
        [id |-> MongoIds(documents)[i],
         content |-> documents[i].content,
         embedding |-> Embed(documents[i].content),
         metadata |-> documents[i].metadata]]

\* insert_many(ordered=False) over the first n prepared documents: each
\* document whose _id is not yet in the collection is inserted, the others
\* are write errors (E11000 duplicate key) reported once all were tried.
\* MongoInsertManyAppend is an insert that does not enforce the unique _id.
RECURSIVE MongoInsertManyAppend(_, _, _)
MongoInsertManyAppend(recs, prepared, n) ==
    IF n = 0 THEN [recs |-> recs, errors |-> 0]
    ELSE LET sofar == MongoInsertManyAppend(recs, prepared, n - 1)
         IN  [recs |-> sofar.recs \cup {prepared[n]}, errors |-> sofar.errors]

RECURSIVE MongoInsertMany(_, _, _)
MongoInsertMany(recs, prepared, n) ==
    IF n = 0 THEN [recs |-> recs, errors |-> 0]
    ELSE LET sofar == MongoInsertMany(recs, prepared, n - 1)
         IN  IF \E r \in sofar.recs : r.id = prepared[n].id
             THEN [recs |-> sofar.recs, errors |-> sofar.errors + 1]
             ELSE [recs |-> sofar.recs \cup {prepared[n]}, errors |-> sofar.errors]

MongoAddDocuments(st, cache, documents, coll, fail) ==
    IF fail # "none" THEN {Raised(st, cache, "BackendError")}
    ELSE
    LET before == IF coll \in DOMAIN st THEN st[coll] ELSE {}
        written == MongoInsertMany(before, MongoPrepared(documents), Len(documents))
        st1 == IF written.recs = {} /\ coll \notin DOMAIN st THEN st
               ELSE [c \in DOMAIN st \cup {coll} |->
                        IF c = coll THEN written.recs ELSE st[c]]
    IN  IF written.errors = 0 THEN {Returned(st1, cache, MongoIds(documents))}
        ELSE {Raised(st1, cache, "BulkWriteError")}

\* "similarity": dot(embedding, query) / sqrt(sum(embedding ** 2)), scaled
MongoSimilarity(embedding, query_embedding) ==
    (Dot(embedding, query_embedding) * ScoreScale) \div Norm(embedding)

\* $limit
MongoLimit(s, top_k) == Take(s, top_k)

\* collection.aggregate([$addFields similarity, $sort -1, $limit top_k])
MongoAggregate(recs, query_embedding, top_k) ==
    LET scored == {[rec |-> r,
                    similarity |-> MongoSimilarity(r.embedding, query_embedding)] :
                      r \in recs}
    IN  {MongoLimit(p, top_k) :
           p \in {q \in Perms(scored) :
                   \A i, j \in 1..Len(q) : i < j => q[i].similarity >= q[j].similarity}}

MongoSearch(st, cache, query, coll, top_k, fail) ==
    IF fail # "none" THEN {Returned(st, cache, <<>>)}
    ELSE {Returned(st, cache,
                   [i \in 1..Len(results) |->
                      SearchResult(results[i].rec.content,
                                   results[i].similarity,
                                   results[i].rec.metadata)]) :
            results \in MongoAggregate(IF coll \in DOMAIN st THEN st[coll] ELSE {},
                                       Embed(query), top_k)}

\* return result.deleted_count > 0
MongoDeleteDocuments(st, cache, doc_ids, coll, fail) ==
    IF fail # "none" THEN {Returned(st, cache, FALSE)}
    ELSE IF coll \notin DOMAIN st THEN {Returned(st, cache, FALSE)}
    ELSE LET deleted == {r \in st[coll] : r.id \in doc_ids}
         IN  {Returned([st EXCEPT ![coll] = st[coll] \ deleted], cache,
                       Cardinality(deleted) > 0)}

\* self.db[collection_name].drop()
MongoDeleteCollection(st, cache, coll, fail) ==
    IF fail # "none" THEN {Returned(st, cache, FALSE)}
    ELSE {Returned([c \in DOMAIN st \ {coll} |-> st[c]], cache, TRUE)}

\* self.client.admin.command("ping"), except ConnectionFailure
MongoHealthCheck(st, cache, kind) ==
    IF kind = "none" THEN {Returned(st, cache, TRUE)}
    ELSE IF kind = "connection" THEN {Returned(st, cache, FALSE)}
    ELSE {Raised(st, cache, kind)}

----------------------------------------------------------------------------
(* PineconeAdapter.  store is the project's indexes; every record carries  *)
(* the namespace it was written to.                                        *)

\* self.namespace
Namespace == "documents"

\* batch_size
BatchSize == 100

\* doc_id = doc.doc_id or f"doc_{i}"
PineconeIds(documents) ==
    [i \in 1..Len(documents) |->
        IF documents[i].doc_id = NoneId THEN SynthId(i - 1)
        ELSE documents[i].doc_id]

\* {"content": doc.content, **doc.metadata}
PineconeMetadata(doc) ==
    [k \in {"content"} \cup DOMAIN doc.metadata |->
        IF k \in DOMAIN doc.metadata THEN doc.metadata[k] ELSE doc.content]

\* records_to_upsert
PineconeRecords(documents) ==
    [i \in 1..Len(documents) |->
        [id |-> PineconeIds(documents)[i],
         values |-> Embed(documents[i].content),
         metadata |-> PineconeMetadata(documents[i])]]

\* index.upsert(vectors=batch, namespace) over the first n vectors of the
\* batch: a vector replaces the stored one of the same id and namespace, and
\* of two vectors of the batch with one id the later one stays.
PineconeUpsert(recs, batch, namespace, n) ==
    {r \in recs : ~ (r.ns = namespace /\ \E j \in 1..n : batch[j].id = r.id)}
        \cup {[id |-> batch[j].id, values |-> batch[j].values,
               metadata |-> batch[j].metadata, ns |-> namespace] :
                j \in {k \in 1..n : \A l \in (k + 1)..n : batch[l].id # batch[k].id}}

\* a batch that stops one record short of the slice
PineconeBatchShort(records, i) ==
    SubSeq(records, i + 1, Min(i + BatchSize - 1, Len(records)))

\* batch = records_to_upsert[i:i + batch_size]
PineconeBatch(records, i) ==
    SubSeq(records, i + 1, Min(i + BatchSize, Len(records)))

\* for i in range(0, len(records_to_upsert), batch_size): index.upsert(...)
RECURSIVE PineconeUpsertBatches(_, _, _)
PineconeUpsertBatches(recs, records, i) ==
    IF i >= Len(records) THEN recs
    ELSE LET batch == PineconeBatch(records, i)
         IN  PineconeUpsertBatches(
                 PineconeUpsert(recs, batch, Namespace, Len(batch)),
                 records, i + BatchSize)

PineconeAddDocuments(st, cache, documents, coll, fail) ==
    LET v == ValidateIndexName(coll) IN
    IF ~ v.ok THEN {Raised(st, cache, "ValueError")}
    ELSE IF fail # "none" THEN {Raised(st, cache, "BackendError")}
    ELSE
    LET name == v.value
        \* _ensure_index_exists
        st1 == IF name \in DOMAIN st THEN st
               ELSE [c \in DOMAIN st \cup {name} |->
                        IF c = name THEN {} ELSE st[c]]
        st2 == [st1 EXCEPT ![name] =
                   PineconeUpsertBatches(st1[name], PineconeRecords(documents), 0)]
    IN  {Returned(st2, cache, PineconeIds(documents))}

\* The k best of the scored matches, best first: every order the ties allow.
RECURSIVE TopMatches(_, _)
TopMatches(scored, k) ==
    IF k = 0 \/ scored = {} THEN {<<>>}
    ELSE UNION {{<<m>> \o rest : rest \in TopMatches(scored \ {m}, k - 1)} :
                  m \in {x \in scored : \A y \in scored : x.score >= y.score}}

\* index.query(namespace, vector, top_k): the top_k most similar vectors of
\* the namespace, most similar first.
PineconeQuery(recs, namespace, vector, top_k) ==
    LET scored == {[rec |-> r, score |-> Cosine(r.values, vector)] :
                     r \in {x \in recs : x.ns = namespace}}
    IN  TopMatches(scored, top_k)

\* content = match.metadata.get("content", "")
\* metadata = {k: v for k, v in match.metadata.items() if k != "content"}
PineconeResult(match) ==
    SearchResult(IF "content" \in DOMAIN match.rec.metadata
                 THEN match.rec.metadata["content"] ELSE "",
                 match.score,
                 [k \in DOMAIN match.rec.metadata \ {"content"} |->
                    match.rec.metadata[k]])

\* index.query and the conversion of its matches
PineconeSearchIndex(st, cache, query, name, top_k) ==
    {Returned(st, cache, [i \in 1..Len(matches) |-> PineconeResult(matches[i])]) :
       matches \in PineconeQuery(st[name], Namespace, Embed(query), top_k)}

\* search without `if not self.pc.has_index(...)`: the query of a missing
\* index raises
PineconeSearchNoHasIndex(st, cache, query, coll, top_k, fail) ==
    LET v == ValidateIndexName(coll) IN
    IF ~ v.ok THEN {Raised(st, cache, "ValueError")}
    ELSE IF fail # "none" THEN {Raised(st, cache, "BackendError")}
    ELSE IF v.value \notin DOMAIN st THEN {Raised(st, cache, "NotFoundException")}
    ELSE PineconeSearchIndex(st, cache, query, v.value, top_k)

PineconeSearch(st, cache, query, coll, top_k, fail) ==
    LET v == ValidateIndexName(coll) IN
    IF ~ v.ok THEN {Raised(st, cache, "ValueError")}
    ELSE IF fail # "none" THEN {Raised(st, cache, "BackendError")}
    ELSE IF v.value \notin DOMAIN st THEN {Returned(st, cache, <<>>)}
    ELSE PineconeSearchIndex(st, cache, query, v.value, top_k)

PineconeDeleteDocuments(st, cache, doc_ids, coll, fail) ==
    LET v == ValidateIndexName(coll) IN
    IF ~ v.ok THEN {Returned(st, cache, FALSE)}
    ELSE IF fail # "none" THEN {Returned(st, cache, FALSE)}
    ELSE IF v.value \notin DOMAIN st THEN {Returned(st, cache, FALSE)}
    ELSE {Returned([st EXCEPT ![v.value] =
                      {r \in st[v.value] :
                         ~ (r.id \in doc_ids /\ r.ns = Namespace)}],
                   cache, TRUE)}

PineconeDeleteCollection(st, cache, coll, fail) ==
    LET v == ValidateIndexName(coll) IN
    IF ~ v.ok THEN {Returned(st, cache, FALSE)}
    ELSE IF fail # "none" THEN {Returned(st, cache, FALSE)}
    ELSE {Returned([c \in DOMAIN st \ {v.value} |-> st[c]], cache, TRUE)}

\* self.pc.list_indexes(), except Exception
PineconeHealthCheck(st, cache, kind) ==
    IF kind = "none" THEN {Returned(st, cache, TRUE)}
    ELSE {Returned(st, cache, FALSE)}

----------------------------------------------------------------------------
(* The port: the adapter the factory selected serves every call.           *)

Backends == {"chromadb", "pinecone", "mongodb"}

\* A backend call of the handler either goes through or fails.
OpFailures == {"none", "backend"}

\* What the health probe's backend call can raise: pymongo ConnectionFailure,
\* pymongo OperationFailure (authentication), any other client error.
HealthFailures == {"none", "connection", "operation", "other"}

\* ChromaDBAdapter.health_check makes no backend call: nothing can fail.
HealthFailuresOf(b) == IF b = "chromadb" THEN {"none"} ELSE HealthFailures

EmptyStore == [c \in {} |-> {}]

AdapterAddDocuments(b, st, cache, documents, coll, fail) ==
    CASE b = "chromadb" -> ChromaAddDocuments(st, cache, documents, coll, fail)
      [] b = "pinecone" -> PineconeAddDocuments(st, cache, documents, coll, fail)
      [] b = "mongodb" -> MongoAddDocuments(st, cache, documents, coll, fail)

AdapterSearch(b, st, cache, query, coll, top_k, fail) ==
    CASE b = "chromadb" -> ChromaSearch(st, cache, query, coll, top_k, fail)
      [] b = "pinecone" -> PineconeSearch(st, cache, query, coll, top_k, fail)
      [] b = "mongodb" -> MongoSearch(st, cache, query, coll, top_k, fail)

AdapterDeleteDocuments(b, st, cache, doc_ids, coll, fail) ==
    CASE b = "chromadb" -> ChromaDeleteDocuments(st, cache, doc_ids, coll, fail)
      [] b = "pinecone" -> PineconeDeleteDocuments(st, cache, doc_ids, coll, fail)
      [] b = "mongodb" -> MongoDeleteDocuments(st, cache, doc_ids, coll, fail)

AdapterDeleteCollection(b, st, cache, coll, fail) ==
    CASE b = "chromadb" -> ChromaDeleteCollection(st, cache, coll, fail)
      [] b = "pinecone" -> PineconeDeleteCollection(st, cache, coll, fail)
      [] b = "mongodb" -> MongoDeleteCollection(st, cache, coll, fail)

AdapterHealthCheck(b, st, cache, kind) ==
    CASE b = "chromadb" -> ChromaHealthCheck(st, cache, kind)
      [] b = "pinecone" -> PineconeHealthCheck(st, cache, kind)
      [] b = "mongodb" -> MongoHealthCheck(st, cache, kind)

\* The collection a name denotes on backend b: Pinecone's validated index
\* name, the name itself elsewhere.
CollKey(b, coll) ==
    IF b = "pinecone" THEN ValidateIndexName(coll).value ELSE coll

\* Whether backend b accepts the name.
NameAccepted(b, coll) == b # "pinecone" \/ ValidateIndexName(coll).ok

\* The ids stored in a collection.
StoredIds(st, key) == IF key \in DOMAIN st THEN {r.id : r \in st[key]} ELSE {}

\* The id lists delete_documents is called with.
IdSets == {{"x"}, {SynthId(0)}, {SynthId(0), SynthId(1)}}

TopKs == 1..MaxTopK

\* The record of the last call: its arguments, what the collection was
\* before it (existed, hit), how it ended and what it returned: the ids of
\* add_documents, the results of search, the boolean of the other calls.
Call(op, coll, r, docs, ids, query, topk, fail, st) ==
    [op |-> op, coll |-> coll, outcome |-> r.outcome, err |-> r.err,
     ret_ids |-> IF op = "add_documents" /\ r.outcome = "ok" THEN r.ret ELSE <<>>,
     ret_results |-> IF op = "search" /\ r.outcome = "ok" THEN r.ret ELSE <<>>,
     ret_bool |-> IF op \in {"delete_documents", "delete_collection", "health_check"}
                       /\ r.outcome = "ok"
                  THEN r.ret ELSE FALSE,
     docs |-> docs, ids |-> ids, query |-> query, topk |-> topk, fail |-> fail,
     existed |-> CollKey(backend, coll) \in DOMAIN st,
     hit |-> StoredIds(st, CollKey(backend, coll)) \cap ids # {}]

NoCall ==
    [op |-> "init", coll |-> <<>>, outcome |-> "ok", err |-> "none",
     ret_ids |-> <<>>, ret_results |-> <<>>, ret_bool |-> FALSE,
     docs |-> <<>>, ids |-> {}, query |-> "", topk |-> 0, fail |-> "none",
     existed |-> FALSE, hit |-> FALSE]

NoResult == [ok |-> FALSE, kind |-> "unset", value |-> <<>>,
             example |-> <<>>, special |-> {}]

\* No Pinecone handler is running.
Idle == [pos |-> "idle", op |-> "none", coll |-> <<>>, n |-> 0, ids |-> {},
         query |-> "", top_k |-> 0, name |-> <<>>, i |-> 0]

\* No handler has answered yet.
NoResp == [outcome |-> "none", err |-> "none", ret_ids |-> <<>>,
           ret_results |-> <<>>, ret_bool |-> FALSE]

\* The variables of the step-by-step Pinecone handlers stay as they start.
NoHandler ==
    /\ handler = Idle
    /\ calls = <<>>
    /\ resp = NoResp
    /\ ready = {}

\* process_pdf was not called.
NoPdf == [pages |-> <<>>, filename |-> "", document_id |-> "", metadata |-> EmptyMeta]

\* process_pdf has not answered.
NoDocuments == [outcome |-> "none", err |-> "none", message |-> "",
                documents |-> <<>>]

\* No request was served.
NoHttp == [route |-> "none", status |-> 0, detail |-> "", instance |-> 0,
           pages |-> <<>>, filename |-> "", size |-> "", collection_name |-> <<>>,
           processed |-> NoDocuments, add_calls |-> 0, chunks_ids |-> <<>>,
           total_results |-> 0, fail |-> "none"]

\* The upload requests that run together on the event loop.
Uploaders == {1, 2}

\* An upload request that has not arrived.
NoUpload == [pos |-> "new", pages |-> <<>>, filename |-> "", size |-> "",
             collection_name |-> <<>>, fail |-> "none", document_id |-> "",
             documents |-> <<>>, status |-> 0, detail |-> "",
             chunks_ids |-> <<>>, created |-> FALSE, overlapped |-> FALSE]

\* The variables of the PDF processor stay as they start.
NoPdfCall ==
    /\ pdf = NoPdf
    /\ pdfres = NoDocuments

\* The variables of the HTTP routes stay as they start: the import of
\* app.api.routes has built the one adapter of the routes.
NoRequest ==
    /\ http = NoHttp
    /\ adapters = 1
    /\ uploads = [i \in Uploaders |-> NoUpload]

Init ==
    /\ backend \in Backends
    /\ store = EmptyStore
    /\ collections = {}
    /\ everCreated = {}
    /\ last = NoCall
    /\ nops = 0
    /\ vname = <<>>
    /\ vres = NoResult
    /\ NoHandler
    /\ NoPdfCall
    /\ NoRequest

Applied(r, call) ==
    /\ store' = r.store
    /\ collections' = r.cache
    /\ everCreated' = everCreated \cup DOMAIN r.store
    /\ last' = call
    /\ nops' = nops + 1
    /\ UNCHANGED <<backend, vname, vres, handler, calls, resp, ready, pdf, pdfres,
                   http, adapters, uploads>>

AddDocuments ==
    /\ nops < MaxOps
    /\ \E documents \in DocLists, coll \in CollNames, fail \in OpFailures :
         \E r \in AdapterAddDocuments(backend, store, collections, documents, coll, fail) :
           Applied(r, Call("add_documents", coll, r, documents, {}, "", 0, fail, store))

Search ==
    /\ nops < MaxOps
    /\ \E query \in Contents, coll \in CollNames, top_k \in TopKs, fail \in OpFailures :
         \E r \in AdapterSearch(backend, store, collections, query, coll, top_k, fail) :
           Applied(r, Call("search", coll, r, <<>>, {}, query, top_k, fail, store))

DeleteDocuments ==
    /\ nops < MaxOps
    /\ \E doc_ids \in IdSets, coll \in CollNames, fail \in OpFailures :
         \E r \in AdapterDeleteDocuments(backend, store, collections, doc_ids, coll, fail) :
           Applied(r, Call("delete_documents", coll, r, <<>>, doc_ids, "", 0, fail, store))

DeleteCollection ==
    /\ nops < MaxOps
    /\ \E coll \in CollNames, fail \in OpFailures :
         \E r \in AdapterDeleteCollection(backend, store, collections, coll, fail) :
           Applied(r, Call("delete_collection", coll, r, <<>>, {}, "", 0, fail, store))

HealthCheck ==
    /\ nops < MaxOps
    /\ \E kind \in HealthFailuresOf(backend) :
         \E r \in AdapterHealthCheck(backend, store, collections, kind) :
           Applied(r, Call("health_check", <<>>, r, <<>>, {}, "", 0, kind, store))

Next ==
    \/ AddDocuments
    \/ Search
    \/ DeleteDocuments
    \/ DeleteCollection
    \/ HealthCheck

Spec == Init /\ [][Next]_vars

----------------------------------------------------------------------------
(* The name validation alone: every name of at most MaxNameLen characters. *)

NameInputs == UNION {[1..n -> Chars] : n \in 0..MaxNameLen}

InitValidate ==
    /\ backend = "pinecone"
    /\ store = EmptyStore
    /\ collections = {}
    /\ everCreated = {}
    /\ last = NoCall
    /\ nops = 0
    /\ vname \in NameInputs
    /\ vres = NoResult
    /\ NoHandler
    /\ NoPdfCall
    /\ NoRequest

Validate ==
    /\ vres = NoResult
    /\ vres' = ValidateIndexName(vname)
    /\ UNCHANGED <<backend, store, collections, everCreated, last, nops, vname,
                   handler, calls, resp, ready, pdf, pdfres, http, adapters, uploads>>

NextValidate == Validate

SpecValidate == InitValidate /\ [][NextValidate]_vars

----------------------------------------------------------------------------
(* The Pinecone handlers step by step.  Every step makes one call: first   *)
(* the name validation, then the calls to the backend client in the order  *)
(* of the code.  calls is the log of the running request, ready the        *)
(* indexes the backend reports ready.                                      *)

MaxDocs == 201

MaxRequests == 2

\* dimension=384
Dimension == 384

\* metric="cosine"
Metric == "cosine"

\* The lengths of the lists add_documents is called with: around every
\* multiple of the batch size, and the longest list.
DocCounts == {n \in 0..MaxDocs : n % BatchSize \in {0, 1, BatchSize - 1}}
                \cup {MaxDocs}

\* A list of n documents without doc_id.
DocsOf(n) == [i \in 1..n |-> IF i % 2 = 1 THEN DocA ELSE DocB]

\* The names the step-by-step handlers are called with.
PcNames == {<<"a">>, <<"a", "_">>}

PcOps == {"add_documents", "search", "delete_documents", "delete_collection"}

\* The methods of the Pinecone client and of its index.
BackendFns == {"has_index", "create_index", "Index", "upsert", "query",
               "delete", "delete_index"}

\* One entry of the log: the call, whether it went through, the vectors it
\* carried and whether the index it names was ready at that moment.
Event(fn, name, ok, batch) ==
    [fn |-> fn, name |-> name, ok |-> ok, batch |-> batch,
     ready |-> name \in ready, dimension |-> 0, metric |-> ""]

ReturnedIds(ids) == [NoResp EXCEPT !.outcome = "ok", !.ret_ids = ids]

ReturnedResults(results) == [NoResp EXCEPT !.outcome = "ok", !.ret_results = results]

ReturnedBool(b) == [NoResp EXCEPT !.outcome = "ok", !.ret_bool = b]

\* except Exception: raise in add_documents and search, return False in
\* delete_documents and delete_collection
Failed(err) ==
    IF handler.op \in {"add_documents", "search"}
    THEN [NoResp EXCEPT !.outcome = "raise", !.err = err]
    ELSE ReturnedBool(FALSE)

Goto(pos) ==
    /\ handler' = [handler EXCEPT !.pos = pos]
    /\ resp' = resp

Finish(r) ==
    /\ handler' = [handler EXCEPT !.pos = "done"]
    /\ resp' = r

InitPinecone ==
    /\ backend = "pinecone"
    /\ store = EmptyStore
    /\ collections = {}
    /\ everCreated = {}
    /\ last = NoCall
    /\ nops = 0
    /\ vname = <<>>
    /\ vres = NoResult
    /\ NoHandler
    /\ NoPdfCall
    /\ NoRequest

\* A request that goes to the backend under the name as given.
PcCallUnvalidated ==
    /\ handler.pos \in {"idle", "done"}
    /\ nops < MaxRequests
    /\ \E op \in PcOps, coll \in PcNames :
         \E n \in (IF op = "add_documents" THEN DocCounts ELSE {0}),
            ids \in (IF op = "delete_documents" THEN IdSets ELSE {{}}) :
           handler' = [pos |-> "has_index", op |-> op, coll |-> coll, n |-> n,
                       ids |-> ids,
                       query |-> IF op = "search" THEN "alpha" ELSE "",
                       top_k |-> IF op = "search" THEN 1 ELSE 0,
                       name |-> coll, i |-> 0]
    /\ calls' = <<>>
    /\ resp' = NoResp
    /\ nops' = nops + 1
    /\ UNCHANGED <<backend, store, collections, everCreated, last, vname, vres, ready>>
    /\ UNCHANGED <<pdf, pdfres, http, adapters, uploads>>

\* A caller awaits one of the four operations that take a collection name.
PcCall ==
    /\ handler.pos \in {"idle", "done"}
    /\ nops < MaxRequests
    /\ \E op \in PcOps, coll \in PcNames :
         \E n \in (IF op = "add_documents" THEN DocCounts ELSE {0}),
            ids \in (IF op = "delete_documents" THEN IdSets ELSE {{}}) :
           handler' = [pos |-> "validate", op |-> op, coll |-> coll, n |-> n,
                       ids |-> ids,
                       query |-> IF op = "search" THEN "alpha" ELSE "",
                       top_k |-> IF op = "search" THEN 1 ELSE 0,
                       name |-> <<>>, i |-> 0]
    /\ calls' = <<>>
    /\ resp' = NoResp
    /\ nops' = nops + 1
    /\ UNCHANGED <<backend, store, collections, everCreated, last, vname, vres, ready>>
    /\ UNCHANGED <<pdf, pdfres, http, adapters, uploads>>

\* collection_name = self._validate_index_name(collection_name)
PcValidate ==
    /\ handler.pos = "validate"
    /\ LET v == ValidateIndexName(handler.coll) IN
         /\ calls' = Append(calls, Event("_validate_index_name", handler.coll,
                                         v.ok, <<>>))
         /\ IF v.ok
            THEN /\ handler' = [handler EXCEPT !.pos = "has_index", !.name = v.value]
                 /\ resp' = resp
            ELSE Finish(Failed("ValueError"))
    /\ UNCHANGED <<backend, store, collections, everCreated, last, nops, vname,
                   vres, ready>>
    /\ UNCHANGED <<pdf, pdfres, http, adapters, uploads>>

\* self.pc.has_index(collection_name) and the branch each handler takes on it
PcHasIndex ==
    /\ handler.pos = "has_index"
    /\ \E fail \in OpFailures :
         /\ calls' = Append(calls, Event("has_index", handler.name,
                                         fail = "none", <<>>))
         /\ IF fail # "none" THEN Finish(Failed("BackendError"))
            ELSE LET exists == handler.name \in DOMAIN store IN
                 CASE handler.op = "add_documents" ->
                        Goto(IF exists THEN "Index" ELSE "create_index")
                   [] handler.op = "search" ->
                        IF exists THEN Goto("Index")
                        ELSE Finish(ReturnedResults(<<>>))
                   [] handler.op = "delete_documents" ->
                        IF exists THEN Goto("Index")
                        ELSE Finish(ReturnedBool(FALSE))
                   [] handler.op = "delete_collection" ->
                        IF exists THEN Goto("delete_index")
                        ELSE Finish(ReturnedBool(TRUE))
    /\ UNCHANGED <<backend, store, collections, everCreated, last, nops, vname,
                   vres, ready>>
    /\ UNCHANGED <<pdf, pdfres, http, adapters, uploads>>

\* self.pc.create_index(name, dimension=384, metric="cosine", spec): the
\* request that makes the backend start the index.
PcCreateIndex ==
    /\ handler.pos = "create_index"
    /\ \E fail \in OpFailures :
         /\ calls' = Append(calls,
                [Event("create_index", handler.name, fail = "none", <<>>)
                    EXCEPT !.dimension = Dimension, !.metric = Metric])
         /\ IF fail # "none"
            THEN /\ Finish(Failed("BackendError"))
                 /\ store' = store
            ELSE /\ Goto("create_index_wait")
                 /\ store' = [c \in DOMAIN store \cup {handler.name} |->
                                IF c = handler.name THEN {} ELSE store[c]]
    /\ UNCHANGED <<backend, collections, everCreated, last, nops, vname, vres, ready>>
    /\ UNCHANGED <<pdf, pdfres, http, adapters, uploads>>

\* create_index called with timeout=-1: it returns without waiting
PcCreateIndexNoWait ==
    /\ handler.pos = "create_index_wait"
    /\ \E fail \in OpFailures :
         IF fail # "none" THEN Finish(Failed("BackendError"))
         ELSE Goto("sleep")
    /\ UNCHANGED <<backend, store, collections, everCreated, last, nops, vname,
                   vres, calls, ready>>
    /\ UNCHANGED <<pdf, pdfres, http, adapters, uploads>>

\* The rest of self.pc.create_index: called without a timeout, the client
\* polls the index description and returns once the backend reports the
\* index ready; a poll that raises ends the call.
PcCreateIndexWait ==
    /\ handler.pos = "create_index_wait"
    /\ \E fail \in OpFailures :
         IF fail # "none" THEN Finish(Failed("BackendError"))
         ELSE /\ handler.name \in ready
              /\ Goto("sleep")
    /\ UNCHANGED <<backend, store, collections, everCreated, last, nops, vname,
                   vres, calls, ready>>
    /\ UNCHANGED <<pdf, pdfres, http, adapters, uploads>>

\* time.sleep(2)
PcSleep ==
    /\ handler.pos = "sleep"
    /\ Goto("Index")
    /\ UNCHANGED <<backend, store, collections, everCreated, last, nops, vname,
                   vres, calls, ready>>
    /\ UNCHANGED <<pdf, pdfres, http, adapters, uploads>>

\* index = self.pc.Index(collection_name)
PcIndex ==
    /\ handler.pos = "Index"
    /\ \E fail \in OpFailures :
         /\ calls' = Append(calls, Event("Index", handler.name, fail = "none", <<>>))
         /\ IF fail # "none" THEN Finish(Failed("BackendError"))
            ELSE CASE handler.op = "add_documents" ->
                        IF handler.n = 0 THEN Finish(ReturnedIds(<<>>))
                        ELSE Goto("upsert")
                   [] handler.op = "search" -> Goto("query")
                   [] handler.op = "delete_documents" -> Goto("delete")
    /\ UNCHANGED <<backend, store, collections, everCreated, last, nops, vname,
                   vres, ready>>
    /\ UNCHANGED <<pdf, pdfres, http, adapters, uploads>>

\* One round of the loop: index.upsert(vectors=batch, namespace)
PcUpsert ==
    /\ handler.pos = "upsert"
    /\ LET records == PineconeRecords(DocsOf(handler.n))
           batch == PineconeBatch(records, handler.i)
       IN  \E fail \in OpFailures :
             /\ calls' = Append(calls, Event("upsert", handler.name,
                                             fail = "none", batch))
             /\ IF fail # "none"
                THEN /\ Finish(Failed("BackendError"))
                     /\ store' = store
                ELSE /\ store' = [store EXCEPT ![handler.name] =
                                     PineconeUpsert(@, batch, Namespace, Len(batch))]
                     /\ IF handler.i + BatchSize >= handler.n
                        THEN Finish(ReturnedIds(PineconeIds(DocsOf(handler.n))))
                        ELSE /\ handler' = [handler EXCEPT !.i = @ + BatchSize]
                             /\ resp' = resp
    /\ UNCHANGED <<backend, collections, everCreated, last, nops, vname, vres, ready>>
    /\ UNCHANGED <<pdf, pdfres, http, adapters, uploads>>

\* results = index.query(namespace, vector, top_k, include_metadata)
PcQuery ==
    /\ handler.pos = "query"
    /\ \E fail \in OpFailures :
         /\ calls' = Append(calls, Event("query", handler.name, fail = "none", <<>>))
         /\ IF fail # "none" THEN Finish(Failed("BackendError"))
            ELSE \E r \in PineconeSearchIndex(store, collections, handler.query,
                                              handler.name, handler.top_k) :
                   Finish(ReturnedResults(r.ret))
    /\ UNCHANGED <<backend, store, collections, everCreated, last, nops, vname,
                   vres, ready>>
    /\ UNCHANGED <<pdf, pdfres, http, adapters, uploads>>

\* index.delete(ids=doc_ids, namespace); return True
PcDelete ==
    /\ handler.pos = "delete"
    /\ \E fail \in OpFailures :
         /\ calls' = Append(calls, Event("delete", handler.name, fail = "none", <<>>))
         /\ IF fail # "none"
            THEN /\ Finish(Failed("BackendError"))
                 /\ store' = store
            ELSE /\ Finish(ReturnedBool(TRUE))
                 /\ store' = [store EXCEPT ![handler.name] =
                                 {r \in @ : ~ (r.id \in handler.ids /\ r.ns = Namespace)}]
    /\ UNCHANGED <<backend, collections, everCreated, last, nops, vname, vres, ready>>
    /\ UNCHANGED <<pdf, pdfres, http, adapters, uploads>>

\* self.pc.delete_index(collection_name); return True
PcDeleteIndex ==
    /\ handler.pos = "delete_index"
    /\ \E fail \in OpFailures :
         /\ calls' = Append(calls, Event("delete_index", handler.name,
                                         fail = "none", <<>>))
         /\ IF fail # "none"
            THEN /\ Finish(Failed("BackendError"))
                 /\ UNCHANGED <<store, ready>>
            ELSE /\ Finish(ReturnedBool(TRUE))
                 /\ store' = [c \in DOMAIN store \ {handler.name} |-> store[c]]
                 /\ ready' = ready \ {handler.name}
    /\ UNCHANGED <<backend, collections, everCreated, last, nops, vname, vres>>
    /\ UNCHANGED <<pdf, pdfres, http, adapters, uploads>>

\* The backend finishes the initialisation of an index it was asked to
\* create, whenever it gets to it.
BackendReady ==
    /\ \E name \in DOMAIN store \ ready : ready' = ready \cup {name}
    /\ UNCHANGED <<backend, store, collections, everCreated, last, nops, vname,
                   vres, handler, calls, resp>>
    /\ UNCHANGED <<pdf, pdfres, http, adapters, uploads>>

NextPinecone ==
    \/ PcCall
    \/ PcValidate
    \/ PcHasIndex
    \/ PcCreateIndex
    \/ PcCreateIndexWait
    \/ PcSleep
    \/ PcIndex
    \/ PcUpsert
    \/ PcQuery
    \/ PcDelete
    \/ PcDeleteIndex
    \/ BackendReady

SpecPinecone == InitPinecone /\ [][NextPinecone]_vars

----------------------------------------------------------------------------
(* PDFProcessor.  A text is a sequence of tokens: a blank, a line break or *)
(* a word.  A PDF is the sequence of the texts its pages yield.            *)

MaxPages == 2

WhiteSpace == {" ", "\n"}

\* What page.extract_text() yields: nothing, blanks only, a line, two lines.
PageTexts == {<<>>, <<" ">>, <<"t">>, <<"t", "\n", "u">>}

\* file_content
PdfInputs == UNION {[1..n -> PageTexts] : n \in 0..MaxPages}

Filenames == {"doc.pdf"}

DocumentIds == {"id"}

\* The metadata a caller passes: none, a key of its own, and each of the
\* four keys process_pdf writes.
Metadatas == {EmptyMeta,
              [k \in {"author"} |-> "me"],
              [k \in {"source_file"} |-> "other.pdf"],
              [k \in {"document_id"} |-> "other"],
              [k \in {"chunk_index"} |-> "7"],
              [k \in {"chunk_total"} |-> "9"]}

\* f"\n--- Pagina {page_num + 1} ---\n"
Header(page_num) ==
    <<"\n", "--- Pagina " \o ToString(page_num + 1) \o " ---", "\n">>

\* _extract_text_from_pdf over the first k pages
RECURSIVE ExtractTextFromPdf(_, _)
ExtractTextFromPdf(pages, k) ==
    IF k = 0 THEN <<>>
    ELSE LET text == ExtractTextFromPdf(pages, k - 1)
             page_text == pages[k]
         IN  IF page_text # <<>> THEN text \o Header(k - 1) \o page_text
             ELSE text

\* str.strip()
Strip(text) ==
    LET inked == {i \in 1..Len(text) : text[i] \notin WhiteSpace}
    IN  IF inked = {} THEN <<>>
        ELSE SubSeq(text,
                    CHOOSE i \in inked : \A j \in inked : i <= j,
                    CHOOSE i \in inked : \A j \in inked : i >= j)

\* The pieces of the text between the separators.
RECURSIVE SplitOn(_, _)
SplitOn(text, sep) ==
    IF ~ \E i \in 1..Len(text) : text[i] = sep THEN <<text>>
    ELSE LET k == CHOOSE i \in 1..Len(text) :
                     text[i] = sep /\ \A j \in 1..(i - 1) : text[j] # sep
         IN  <<SubSeq(text, 1, k - 1)>> \o SplitOn(SubSeq(text, k + 1, Len(text)), sep)

\* self.text_splitter.split_text(text) with a chunk_size that holds one line
\* and not two: the lines of the text, stripped, the empty ones dropped.
SplitText(text) ==
    LET pieces == SplitOn(text, "\n")
    IN  SelectSeq([i \in 1..Len(pieces) |-> Strip(pieces[i])],
                  LAMBDA c : c # <<>>)

\* The string of the first k tokens.
RECURSIVE JoinTokens(_, _)
JoinTokens(tokens, k) ==
    IF k = 0 THEN "" ELSE JoinTokens(tokens, k - 1) \o tokens[k]

\* {**f, **g}
Merge(f, g) ==
    [k \in DOMAIN f \cup DOMAIN g |-> IF k \in DOMAIN g THEN g[k] ELSE f[k]]

\* f"{document_id}_chunk_{idx}"
ChunkId(document_id, idx) == document_id \o "_chunk_" \o ToString(idx)

\* process_pdf that spreads the caller's metadata last
ProcessPdfCallerLast(pages, filename, document_id, metadata) ==
    LET text == ExtractTextFromPdf(pages, Len(pages)) IN
    IF Strip(text) = <<>>
    THEN [outcome |-> "raise", err |-> "ValueError",
          message |-> "PDF nao contem texto extraivel", documents |-> <<>>]
    ELSE LET chunks == SplitText(text)
             default_metadata ==
                 [source_file |-> filename, document_id |-> document_id]
         IN  [outcome |-> "ok", err |-> "none", message |-> "",
              documents |->
                 [i \in 1..Len(chunks) |->
                    Doc(JoinTokens(chunks[i], Len(chunks[i])),
                        Merge(Merge(default_metadata,
                                    [chunk_index |-> ToString(i - 1),
                                     chunk_total |-> ToString(Len(chunks))]),
                              metadata),
                        ChunkId(document_id, i - 1))]]

\* PDFProcessor.process_pdf.  chunk_index and chunk_total are written as
\* their decimal strings.
ProcessPdf(pages, filename, document_id, metadata) ==
    LET text == ExtractTextFromPdf(pages, Len(pages)) IN
    IF Strip(text) = <<>>
    THEN [outcome |-> "raise", err |-> "ValueError",
          message |-> "PDF nao contem texto extraivel", documents |-> <<>>]
    ELSE LET chunks == SplitText(text)
             default_metadata ==
                 Merge([source_file |-> filename, document_id |-> document_id],
                       metadata)
         IN  [outcome |-> "ok", err |-> "none", message |-> "",
              documents |->
                 [i \in 1..Len(chunks) |->
                    Doc(JoinTokens(chunks[i], Len(chunks[i])),
                        Merge(default_metadata,
                              [chunk_index |-> ToString(i - 1),
                               chunk_total |-> ToString(Len(chunks))]),
                        ChunkId(document_id, i - 1))]]

InitPdf ==
    /\ backend = "chromadb"
    /\ store = EmptyStore
    /\ collections = {}
    /\ everCreated = {}
    /\ last = NoCall
    /\ nops = 0
    /\ vname = <<>>
    /\ vres = NoResult
    /\ NoHandler
    /\ pdf \in [pages : PdfInputs, filename : Filenames,
                document_id : DocumentIds, metadata : Metadatas]
    /\ pdfres = NoDocuments
    /\ NoRequest

\* await pdf_processor.process_pdf(file_content, filename, document_id, metadata)
ProcessPdfCall ==
    /\ pdfres = NoDocuments
    /\ pdfres' = ProcessPdf(pdf.pages, pdf.filename, pdf.document_id, pdf.metadata)
    /\ UNCHANGED <<backend, store, collections, everCreated, last, nops, vname,
                   vres, handler, calls, resp, ready, pdf, http, adapters, uploads>>

NextPdf == ProcessPdfCall

SpecPdf == InitPdf /\ [][NextPdf]_vars

----------------------------------------------------------------------------
(* The HTTP routes.  Instance 1 is the adapter app.api.routes builds when  *)
(* it is imported; adapters counts the adapters the factory has built.     *)

MaxHttp == 2

\* The files uploaded: no page, a page without text, pages of blanks only,
\* pages with text.
UploadFiles == {<<>>, << <<>> >>, << <<" ">> >>, << <<" ">>, <<" ">> >>,
                << <<"t">> >>, << <<>>, <<"t", "\n", "u">> >>}

UploadFilenames == {"doc.pdf", "doc.txt"}

\* file.filename.lower().endswith('.pdf')
EndsWithPdf(filename) == filename = "doc.pdf"

\* len(file_content) against settings.MAX_PDF_SIZE_MB * 1024 * 1024
UploadSizes == {"within", "over"}

\* The collection names the routes receive; the last one is blank.
RouteNames == {<<"a">>, <<"a", "_">>, <<" ">>}

\* str(uuid.uuid4()) giving every request the same id
Uuid4Repeated == "id"

\* str(uuid.uuid4()): a new id on every request
Uuid4 == "id" \o ToString(nops)

Response(route, status, detail, coll, fail) ==
    [NoHttp EXCEPT !.route = route, !.status = status, !.detail = detail,
                   !.instance = 1, !.collection_name = coll, !.fail = fail]

InitApp ==
    /\ backend \in Backends
    /\ store = EmptyStore
    /\ collections = {}
    /\ everCreated = {}
    /\ last = NoCall
    /\ nops = 0
    /\ vname = <<>>
    /\ vres = NoResult
    /\ NoHandler
    /\ NoPdfCall
    /\ NoRequest

\* What a route leaves as it is.
RouteFrame ==
    UNCHANGED <<backend, everCreated, last, vname, vres, handler, calls, resp,
                ready, pdf, pdfres, uploads>>

\* POST /api/v1/upload
UploadDocument ==
    /\ nops < MaxHttp
    /\ \E pages \in UploadFiles, filename \in UploadFilenames,
          size \in UploadSizes, coll \in RouteNames, fail \in OpFailures :
         LET sent == [Response("upload", 0, "", coll, fail)
                        EXCEPT !.pages = pages, !.filename = filename,
                               !.size = size]
             processed == ProcessPdf(pages, filename, Uuid4, EmptyMeta)
         IN
         IF ~ EndsWithPdf(filename)
         THEN /\ http' = [sent EXCEPT !.status = 400,
                                      !.detail = "Apenas arquivos PDF sao aceitos"]
              /\ UNCHANGED <<store, collections>>
         ELSE IF size = "over"
         THEN /\ http' = [sent EXCEPT !.status = 413,
                                      !.detail = "Arquivo muito grande"]
              /\ UNCHANGED <<store, collections>>
         ELSE IF processed.outcome = "raise"
         THEN /\ http' = [sent EXCEPT !.status = 400,
                                      !.detail = processed.message,
                                      !.processed = processed]
              /\ UNCHANGED <<store, collections>>
         ELSE IF processed.documents = <<>>
         THEN /\ http' = [sent EXCEPT
                             !.status = 400,
                             !.detail = "Nenhum conteudo extraivel encontrado no PDF",
                             !.processed = processed]
              /\ UNCHANGED <<store, collections>>
         ELSE \E r \in AdapterAddDocuments(backend, store, collections,
                                           processed.documents, coll, fail) :
                /\ store' = r.store
                /\ collections' = r.cache
                /\ http' = [sent EXCEPT
                               !.processed = processed,
                               !.add_calls = 1,
                               !.status = IF r.outcome = "ok" THEN 200
                                          ELSE IF r.err = "ValueError" THEN 400
                                          ELSE 500,
                               !.detail = IF r.outcome = "ok" THEN "success"
                                          ELSE r.err,
                               !.chunks_ids = IF r.outcome = "ok" THEN r.ret
                                              ELSE <<>>]
    /\ nops' = nops + 1
    /\ adapters' = adapters
    /\ RouteFrame

\* POST /api/v1/search
SearchDocuments ==
    /\ nops < MaxHttp
    /\ \E query \in Contents, coll \in RouteNames, fail \in OpFailures :
         LET sent == Response("search", 0, "", coll, fail) IN
         IF Strip(coll) = <<>>
         THEN http' = [sent EXCEPT !.status = 400,
                                   !.detail = "Nome da colecao e obrigatorio"]
         ELSE \E r \in AdapterSearch(backend, store, collections, query, coll,
                                     1, fail) :
                http' = [sent EXCEPT
                            !.status = IF r.outcome = "ok" THEN 200
                                       ELSE IF r.err = "ValueError" THEN 400
                                       ELSE 500,
                            !.detail = IF r.outcome = "ok" THEN "success"
                                       ELSE r.err,
                            !.total_results = IF r.outcome = "ok" THEN Len(r.ret)
                                              ELSE 0]
    /\ nops' = nops + 1
    /\ UNCHANGED <<store, collections, adapters>>
    /\ RouteFrame

\* DELETE /api/v1/collections/{collection_name}
DeleteCollectionRoute ==
    /\ nops < MaxHttp
    /\ \E coll \in RouteNames, fail \in OpFailures :
         \E r \in AdapterDeleteCollection(backend, store, collections, coll, fail) :
           /\ store' = r.store
           /\ collections' = r.cache
           /\ http' = [Response("delete_collection", 0, "", coll, fail) EXCEPT
                          !.status = IF r.outcome = "raise"
                                     THEN (IF r.err = "ValueError" THEN 400 ELSE 500)
                                     ELSE IF r.ret THEN 200 ELSE 404,
                          !.detail = IF r.outcome = "raise" THEN r.err
                                     ELSE IF r.ret THEN "success"
                                     ELSE "Colecao nao encontrada"]
    /\ nops' = nops + 1
    /\ adapters' = adapters
    /\ RouteFrame

\* GET /health: the factory builds one more adapter, and the probe runs on
\* that one.
HealthRoute ==
    /\ nops < MaxHttp
    /\ \E kind \in HealthFailuresOf(backend) :
         \E r \in AdapterHealthCheck(backend, store, {}, kind) :
           http' = [Response("health", 0, "", <<>>, kind) EXCEPT
                       !.instance = adapters + 1,
                       !.status = IF r.outcome = "raise" THEN 503 ELSE 200,
                       !.detail = IF r.outcome = "raise" THEN r.err
                                  ELSE IF r.ret THEN "healthy" ELSE "degraded"]
    /\ adapters' = adapters + 1
    /\ nops' = nops + 1
    /\ UNCHANGED <<store, collections>>
    /\ RouteFrame

NextApp ==
    \/ UploadDocument
    \/ SearchDocuments
    \/ DeleteCollectionRoute
    \/ HealthRoute

SpecApp == InitApp /\ [][NextApp]_vars

----------------------------------------------------------------------------
(* Two POST /api/v1/upload requests served together by the one event loop  *)
(* of the process.  A request runs from one await of upload_document to    *)
(* the next without the other one running; at each await the loop may      *)
(* resume either request.  PDFProcessor.process_pdf and the adapters'       *)
(* add_documents hold no await of their own, so each of them runs whole.   *)

\* The files the requests send: no text at all, one chunk, two chunks.
UploadPdfs == {<< <<>> >>, << <<"t">> >>, << <<>>, <<"t", "\n", "u">> >>}

\* The collections the requests name: under Pinecone the first two are one
\* index.
UploadNames == {<<"a">>, <<"A">>}

\* What an earlier upload of a one-page file under the first uuid left.
EarlierUpload ==
    AdapterAddDocuments(backend, EmptyStore, {},
                        ProcessPdf(<< <<"t">> >>, "doc.pdf", "id0", EmptyMeta).documents,
                        <<"a">>, "none")

\* The two requests start on a backend without collections, or on one where
\* an earlier upload has created the collection.
InitUploads ==
    /\ backend \in Backends
    /\ \/ /\ store = EmptyStore
          /\ collections = {}
          /\ nops = 0
       \/ /\ \E r \in EarlierUpload :
               /\ store = r.store
               /\ collections = r.cache
          /\ nops = 1
    /\ everCreated = {}
    /\ last = NoCall
    /\ vname = <<>>
    /\ vres = NoResult
    /\ NoHandler
    /\ NoPdfCall
    /\ NoRequest

\* What a step of an upload leaves as it is.
UploadFrame ==
    UNCHANGED <<backend, everCreated, last, vname, vres, handler, calls, resp,
                ready, pdf, pdfres, http, adapters>>

\* raise HTTPException(status_code, detail)
HttpException(u, status, detail) ==
    [u EXCEPT !.pos = "done", !.status = status, !.detail = detail]

\* The request arrives: the filename is checked, and the handler waits for
\* file.read().
UploadArrive(i) ==
    /\ uploads[i].pos = "new"
    /\ \E filename \in UploadFilenames, coll \in UploadNames :
         LET u == [uploads[i] EXCEPT !.filename = filename,
                                     !.collection_name = coll]
         IN  uploads' = [uploads EXCEPT ![i] =
                 IF ~ EndsWithPdf(filename)
                 THEN HttpException(u, 400, "Apenas arquivos PDF sao aceitos")
                 ELSE [u EXCEPT !.pos = "file.read"]]
    /\ UNCHANGED <<store, collections, nops>>
    /\ UploadFrame

\* file.read() has answered: the size is checked, the document gets its
\* uuid, and the handler waits for process_pdf.
UploadRead(i) ==
    /\ uploads[i].pos = "file.read"
    /\ \E pages \in UploadPdfs, size \in UploadSizes :
         LET u == [uploads[i] EXCEPT !.pages = pages, !.size = size] IN
         IF size = "over"
         THEN /\ uploads' = [uploads EXCEPT ![i] =
                                HttpException(u, 413, "Arquivo muito grande")]
              /\ nops' = nops
         ELSE /\ uploads' = [uploads EXCEPT ![i] =
                                [u EXCEPT !.pos = "process_pdf",
                                          !.document_id = Uuid4]]
              /\ nops' = nops + 1
    /\ UNCHANGED <<store, collections>>
    /\ UploadFrame

\* process_pdf runs and answers: an error or an empty list ends the request,
\* and otherwise the handler waits for add_documents.
UploadProcess(i) ==
    /\ uploads[i].pos = "process_pdf"
    /\ LET u == uploads[i]
           processed == ProcessPdf(u.pages, u.filename, u.document_id, EmptyMeta)
       IN  uploads' = [uploads EXCEPT ![i] =
               IF processed.outcome = "raise"
               THEN HttpException(u, 400, processed.message)
               ELSE IF processed.documents = <<>>
               THEN HttpException(u, 400,
                                  "Nenhum conteudo extraivel encontrado no PDF")
               ELSE [u EXCEPT !.pos = "add_documents",
                              !.documents = processed.documents]]
    /\ UNCHANGED <<store, collections, nops>>
    /\ UploadFrame

\* Whether another request is between two awaits of the handler.
Overlapped(i) ==
    \E j \in Uploaders \ {i} : uploads[j].pos \notin {"new", "done"}

\* add_documents runs and answers, and the handler returns its response or
\* the HTTPException of the error.  created tells whether the call made the
\* collection, overlapped whether the other request was under way.
UploadAdd(i) ==
    /\ uploads[i].pos = "add_documents"
    /\ \E fail \in OpFailures :
         LET u == [uploads[i] EXCEPT !.fail = fail] IN
         \E r \in AdapterAddDocuments(backend, store, collections, u.documents,
                                      u.collection_name, fail) :
           /\ store' = r.store
           /\ collections' = r.cache
           /\ uploads' = [uploads EXCEPT ![i] =
                 [u EXCEPT
                    !.pos = "done",
                    !.status = IF r.outcome = "ok" THEN 200
                               ELSE IF r.err = "ValueError" THEN 400
                               ELSE 500,
                    !.detail = IF r.outcome = "ok" THEN "success" ELSE r.err,
                    !.chunks_ids = IF r.outcome = "ok" THEN r.ret ELSE <<>>,
                    !.created = DOMAIN r.store # DOMAIN store,
                    !.overlapped = Overlapped(i)]]
    /\ nops' = nops
    /\ UploadFrame

NextUploads ==
    \/ \E i \in Uploaders : UploadArrive(i)
    \/ \E i \in Uploaders : UploadRead(i)
    \/ \E i \in Uploaders : UploadProcess(i)
    \/ \E i \in Uploaders : UploadAdd(i)

SpecUploads == InitUploads /\ [][NextUploads]_vars

----------------------------------------------------------------------------
(* Properties of the adapters, checked under Spec.                         *)

\* The collection the last call named.
LastKey == CollKey(backend, last.coll)

SortedByScore(results) ==
    \A i, j \in 1..Len(results) : i < j => results[i].score >= results[j].score

\* C1, as stated: on every backend, a search of a collection that does not
\* exist (never created, or deleted) returns an empty list and does not
\* raise, the backend being reachable.
C1_SearchOfMissingCollectionIsEmpty ==
    (last.op = "search" /\ ~ last.existed /\ last.fail = "none")
        => (last.outcome = "ok" /\ last.ret_results = <<>>)

\* C1, amended: a search of a collection that does not exist returns an
\* empty list on ChromaDB and MongoDB, and on Pinecone when the name passes
\* the name validation and the has_index call does not fail; for a name the
\* validation rejects the Pinecone adapter raises the ValueError.
C1_SearchOfMissingCollection ==
    (last.op = "search" /\ ~ last.existed)
        => /\ (backend # "pinecone" \/ (NameAccepted(backend, last.coll) /\ last.fail = "none"))
                => (last.outcome = "ok" /\ last.ret_results = <<>>)
           /\ ~ NameAccepted(backend, last.coll)
                => (last.outcome = "raise" /\ last.err = "ValueError")

\* C1: an index that was created and then deleted is searched on Pinecone.
C1_Witness ==
    /\ backend = "pinecone"
    /\ last.op = "search"
    /\ last.fail = "none"
    /\ LastKey \in everCreated
    /\ LastKey \notin DOMAIN store
    /\ last.outcome = "ok"
    /\ last.ret_results = <<>>

\* C2, as stated: for any collection name, delete_collection returns true
\* and leaves no collection of that name, the backend being reachable.
C2_DeleteCollectionAlwaysTrue ==
    (last.op = "delete_collection" /\ last.fail = "none")
        => (last.outcome = "ok" /\ last.ret_bool = TRUE /\ LastKey \notin DOMAIN store)

\* C2, amended: for any collection name the adapter's name validation accepts
\* (every name on ChromaDB and MongoDB), when the backend call does not fail,
\* delete_collection returns true and leaves no collection of that name,
\* whether or not it existed.
C2_DeleteCollectionIdempotent ==
    (/\ last.op = "delete_collection"
     /\ last.fail = "none"
     /\ NameAccepted(backend, last.coll))
        => /\ last.outcome = "ok"
           /\ last.ret_bool = TRUE
           /\ LastKey \notin DOMAIN store

\* C2: a collection that was created and deleted before is deleted again.
C2_Witness ==
    /\ last.op = "delete_collection"
    /\ last.fail = "none"
    /\ LastKey \in everCreated
    /\ ~ last.existed
    /\ last.ret_bool = TRUE

\* C3: delete_documents returns false, and does not raise, when none of the
\* given ids is stored in the collection.
C3_DeleteOfUnknownIdsIsFalse ==
    (last.op = "delete_documents" /\ ~ last.hit)
        => (last.outcome = "ok" /\ last.ret_bool = FALSE)

\* C4: health_check never raises, and returns false on every kind of backend
\* failure.
C4_HealthCheckNeverRaises ==
    last.op = "health_check"
        => (last.outcome = "ok" /\ (last.fail # "none" => last.ret_bool = FALSE))

\* C5: a search that returns gives at most top_k results, in order of
\* non-increasing score.
C5_SearchClampedAndSorted ==
    (last.op = "search" /\ last.outcome = "ok")
        => (Len(last.ret_results) <= last.topk /\ SortedByScore(last.ret_results))

\* C5: a collection of more than top_k chunks is searched with top_k = 2 and
\* the two results have different scores.
C5_Witness ==
    /\ last.op = "search"
    /\ last.outcome = "ok"
    /\ last.topk = 2
    /\ LastKey \in DOMAIN store
    /\ Cardinality(store[LastKey]) > last.topk
    /\ Len(last.ret_results) = 2
    /\ last.ret_results[1].score > last.ret_results[2].score

\* C6: a search that follows a successful add_documents on the same
\* collection, with the content of one of the added documents as its query
\* and top_k at least the number of stored chunks, returns a result with that
\* content.
C6_AddThenSearchFindsContent ==
    [][(/\ last.op = "add_documents"
        /\ last.outcome = "ok"
        /\ last'.op = "search"
        /\ last'.coll = last.coll
        /\ last'.fail = "none"
        /\ \E i \in 1..Len(last.docs) : last.docs[i].content = last'.query
        /\ last'.topk >= Cardinality(store[LastKey]))
          => (/\ last'.outcome = "ok"
              /\ \E j \in 1..Len(last'.ret_results) : last'.ret_results[j].content = last'.query)]_vars

\* C7: add_documents returns one id per document, and a later add_documents
\* whose documents carry no doc_id leaves every chunk stored before under the
\* id it was returned for.
C7_ReturnedIdsStayAssigned ==
    [][(/\ last'.op = "add_documents"
        /\ last'.outcome = "ok"
        /\ \A i \in 1..Len(last'.docs) : last'.docs[i].doc_id = NoneId)
          => (/\ Len(last'.ret_ids) = Len(last'.docs)
              /\ \A key \in DOMAIN store : store[key] \subseteq store'[key])]_vars

\* C8: no collection holds two stored chunks with the same doc_id.
C8_DocIdUniqueInCollection ==
    \A key \in DOMAIN store :
        \A r1, r2 \in store[key] : r1.id = r2.id => r1 = r2

\* C8: a batch that carries the doc_id "x" twice was added to a collection
\* that already held a chunk "x".
C8_Witness ==
    /\ last.op = "add_documents"
    /\ last.existed
    /\ Len(last.docs) = 2
    /\ last.docs[1].doc_id = "x"
    /\ last.docs[2].doc_id = "x"
    /\ "x" \in StoredIds(store, LastKey)
    /\ nops >= 2

----------------------------------------------------------------------------
(* Properties of the name validation, checked under SpecValidate.          *)

\* C9, as stated: a name with a space or an underscore is rejected, and the
\* message proposes the name with its spaces and underscores replaced by
\* hyphens, lowercased.
C9_RejectedWithHyphenatedExample ==
    (vres # NoResult /\ (Contains(vname, " ") \/ Contains(vname, "_")))
        => (/\ ~ vres.ok
            /\ vres.example = Lower(Replace(Replace(vname, " ", "-"), "_", "-")))

\* C9, amended: a name with a space or an underscore is rejected, and the
\* message proposes the name lowercased, with its spaces replaced by hyphens
\* when it contains a space and otherwise with its underscores replaced by
\* hyphens: every other character, an underscore next to a space included,
\* is proposed as it is.
C9_RejectedWithExample ==
    (vres # NoResult /\ (Contains(vname, " ") \/ Contains(vname, "_")))
        => (/\ ~ vres.ok
            /\ Len(vres.example) = Len(vname)
            /\ \A i \in 1..Len(vname) :
                 vres.example[i] =
                    IF vname[i] = (IF Contains(vname, " ") THEN " " ELSE "_")
                    THEN "-" ELSE LowerChar(vname[i]))

\* C9: a name with an uppercase letter and a space, like "My Collection", is
\* rejected with an example in lowercase and hyphens.
C9_Witness ==
    /\ vres # NoResult
    /\ Contains(vname, "A")
    /\ Contains(vname, " ")
    /\ ~ Contains(vname, "_")
    /\ ~ vres.ok
    /\ ~ Contains(vres.example, "A")
    /\ ~ Contains(vres.example, " ")
    /\ Contains(vres.example, "-")

\* C10: a name is accepted only if it consists of lowercase alphanumeric
\* characters and hyphens, and then it is returned unchanged; a name with an
\* uppercase letter or any other character is rejected.
C10_OnlyLowercaseNamesAccepted ==
    vres # NoResult
        => (/\ vres.ok <=> \A i \in 1..Len(vname) :
                              vname[i] \in {"a", "b", "1", "-", "e_acute"}
            /\ vres.ok => vres.value = vname)

----------------------------------------------------------------------------
(* Properties of the Pinecone handlers, checked under SpecPinecone.        *)

\* Whether the log entry is a call to the backend client.
IsBackendCall(e) == e.fn \in BackendFns

\* C11: in the log of every request the name validation comes first; every
\* call to the backend client comes after a validation that accepted the
\* name, and after a rejection the log holds no backend call at all.
C11_ValidationBeforeBackendCalls ==
    /\ calls # <<>> => calls[1].fn = "_validate_index_name"
    /\ handler.pos = "done" => calls # <<>>
    /\ \A j \in 1..Len(calls) :
         IsBackendCall(calls[j]) =>
            \E i \in 1..(j - 1) :
               calls[i].fn = "_validate_index_name" /\ calls[i].ok
    /\ (\E i \in 1..Len(calls) :
            calls[i].fn = "_validate_index_name" /\ ~ calls[i].ok)
          => \A j \in 1..Len(calls) : ~ IsBackendCall(calls[j])

\* C11: a delete_documents of an accepted name went through its three
\* backend calls after the validation.
C11_Witness ==
    /\ handler.pos = "done"
    /\ handler.op = "delete_documents"
    /\ Len(calls) = 4
    /\ calls[1].fn = "_validate_index_name"
    /\ calls[2].fn = "has_index"
    /\ calls[3].fn = "Index"
    /\ calls[4].fn = "delete"

----------------------------------------------------------------------------
(* Properties of the adapters, checked under Spec (continued).             *)

\* C12: whichever operation is called with a collection name the validation
\* rejects, the caller gets the validation's ValueError: the call raises, and
\* what it raises is that error, never a boolean result or another error.
C12_ValidationErrorSurfaced ==
    (/\ last.op \in {"add_documents", "search", "delete_documents",
                     "delete_collection"}
     /\ ~ NameAccepted(backend, last.coll))
        => (last.outcome = "raise" /\ last.err = "ValueError")

----------------------------------------------------------------------------
(* Properties of the Pinecone handlers, checked under SpecPinecone         *)
(* (continued).                                                            *)

\* The upsert calls of the running request, in the order they were issued.
UpsertCalls == SelectSeq(calls, LAMBDA e : e.fn = "upsert")

\* The vectors of the first k upsert calls, one call after the other.
RECURSIVE Sent(_, _)
Sent(ups, k) == IF k = 0 THEN <<>> ELSE Sent(ups, k - 1) \o ups[k].batch

\* ceil(n / d)
Ceil(n, d) == (n + d - 1) \div d

\* C13: the upsert calls of an add_documents carry between 1 and 100 records
\* each; taken in order they are a prefix of the prepared records, and once
\* add_documents has returned they are exactly the N prepared records, in
\* ceil(N / 100) calls.
C13_BatchesCoverRecords ==
    handler.op = "add_documents" =>
        LET records == PineconeRecords(DocsOf(handler.n))
            sent == Sent(UpsertCalls, Len(UpsertCalls))
        IN  /\ \A j \in 1..Len(UpsertCalls) :
                 /\ Len(UpsertCalls[j].batch) >= 1
                 /\ Len(UpsertCalls[j].batch) <= BatchSize
            /\ Len(sent) <= Len(records)
            /\ sent = SubSeq(records, 1, Len(sent))
            /\ (handler.pos = "done" /\ resp.outcome = "ok")
                  => /\ sent = records
                     /\ Len(UpsertCalls) = Ceil(handler.n, BatchSize)
                     /\ resp.ret_ids = PineconeIds(DocsOf(handler.n))

\* C13: an add_documents of more than two full batches has returned after
\* three upsert calls, the last one with the rest of the records.
C13_Witness ==
    /\ handler.op = "add_documents"
    /\ handler.pos = "done"
    /\ resp.outcome = "ok"
    /\ handler.n > 2 * BatchSize
    /\ Len(UpsertCalls) = 3
    /\ Len(UpsertCalls[3].batch) = handler.n - 2 * BatchSize

\* C14: when an upsert of add_documents fails after an earlier upsert of the
\* same call went through, the caller gets a PartialIngestionError, and the
\* records of the earlier batches are still stored.
C14_PartialIngestionErrorRaised ==
    (/\ handler.op = "add_documents"
     /\ handler.pos = "done"
     /\ resp.outcome = "raise"
     /\ \E j \in 1..Len(UpsertCalls) : UpsertCalls[j].ok)
        => /\ resp.err = "PartialIngestionError"
           /\ \A j \in 1..Len(UpsertCalls) :
                UpsertCalls[j].ok =>
                   \A k \in 1..Len(UpsertCalls[j].batch) :
                      UpsertCalls[j].batch[k].id \in StoredIds(store, handler.name)

\* C19: an add_documents that found no index creates it with dimension 384
\* and the cosine metric, and every upsert it issues afterwards finds the
\* index reported ready, however late the backend gets it ready.
C19_NoUpsertBeforeReady ==
    \A i \in 1..Len(calls) :
       calls[i].fn = "create_index" =>
          /\ handler.op = "add_documents"
          /\ i > 1 /\ calls[i - 1].fn = "has_index" /\ calls[i - 1].ok
          /\ calls[i].dimension = 384
          /\ calls[i].metric = "cosine"
          /\ \A j \in (i + 1)..Len(calls) :
                calls[j].fn = "upsert" => calls[j].ready

\* C19: add_documents created the index and has upserted into it.
C19_Witness ==
    /\ handler.op = "add_documents"
    /\ handler.pos = "done"
    /\ resp.outcome = "ok"
    /\ \E i, j \in 1..Len(calls) :
          /\ i < j
          /\ calls[i].fn = "create_index"
          /\ ~ calls[i].ready
          /\ calls[j].fn = "upsert"
          /\ calls[j].ready

----------------------------------------------------------------------------
(* Properties of the PDF processor, checked under SpecPdf.                 *)

\* The chunks of the PDF process_pdf was called with.
ChunksOfPdf == SplitText(ExtractTextFromPdf(pdf.pages, Len(pdf.pages)))

\* The documents answer the chunks one to one and in order: the content, the
\* chunk_index, the chunk_total and the doc_id of each, all doc_ids distinct.
ChunkLineage ==
    LET docs == pdfres.documents
        n == Len(ChunksOfPdf)
    IN  /\ n >= 1
        /\ Len(docs) = n
        /\ \A i \in 1..n :
             /\ docs[i].content = JoinTokens(ChunksOfPdf[i], Len(ChunksOfPdf[i]))
             /\ docs[i].metadata["chunk_index"] = ToString(i - 1)
             /\ docs[i].metadata["chunk_total"] = ToString(n)
             /\ docs[i].doc_id = ChunkId(pdf.document_id, i - 1)
        /\ \A i, j \in 1..n : i # j => docs[i].doc_id # docs[j].doc_id

\* C16, as stated: process_pdf returns one document per chunk, in order,
\* with chunk_index i, chunk_total n, the filename as source_file, the parent
\* id as document_id and the doc_id "<document_id>_chunk_<i>", whatever
\* metadata the caller passed.
C16_LineageKeysFixed ==
    pdfres.outcome = "ok" =>
        /\ ChunkLineage
        /\ \A i \in 1..Len(pdfres.documents) :
             /\ pdfres.documents[i].metadata["source_file"] = pdf.filename
             /\ pdfres.documents[i].metadata["document_id"] = pdf.document_id

\* C16, amended: process_pdf returns one document per chunk, in order, with
\* chunk_index i, chunk_total n and the doc_id "<document_id>_chunk_<i>",
\* whatever metadata the caller passed; source_file and document_id are the
\* filename and the parent id unless the caller's metadata has that key, and
\* then they are the caller's values.
C16_LineageKeys ==
    pdfres.outcome = "ok" =>
        /\ ChunkLineage
        /\ \A i \in 1..Len(pdfres.documents) :
             /\ pdfres.documents[i].metadata["source_file"] =
                   IF "source_file" \in DOMAIN pdf.metadata
                   THEN pdf.metadata["source_file"] ELSE pdf.filename
             /\ pdfres.documents[i].metadata["document_id"] =
                   IF "document_id" \in DOMAIN pdf.metadata
                   THEN pdf.metadata["document_id"] ELSE pdf.document_id

\* C16: a PDF of several chunks was processed with caller metadata that
\* names chunk_index.
C16_Witness ==
    /\ pdfres.outcome = "ok"
    /\ Len(pdfres.documents) >= 3
    /\ "chunk_index" \in DOMAIN pdf.metadata
    /\ pdfres.documents[3].metadata["chunk_index"] = "2"

----------------------------------------------------------------------------
(* Properties of the HTTP routes, checked under SpecApp.                   *)

\* The text every page of the uploaded PDF yields is empty or blank.
NoPageHasText == \A i \in 1..Len(http.pages) : Strip(http.pages[i]) = <<>>

\* C15: the upload of a PDF whose pages yield no text, or blanks only, is
\* answered with the empty-content error; nothing was chunked and
\* add_documents was not called.
C15_BlankPdfRejected ==
    (/\ http.route = "upload"
     /\ EndsWithPdf(http.filename)
     /\ http.size = "within"
     /\ NoPageHasText)
        => /\ http.status = 400
           /\ http.detail = "PDF nao contem texto extraivel"
           /\ http.processed.outcome = "raise"
           /\ http.processed.documents = <<>>
           /\ http.add_calls = 0

\* C17: the factory has built one adapter, and the request just served
\* ran on it.
C17_OneAdapterInstance ==
    /\ adapters = 1
    /\ http.route # "none" => http.instance = 1

----------------------------------------------------------------------------
(* Properties of the adapters, checked under Spec (continued).             *)

\* C18: a search whose backend call fails raises; it does not return a
\* result list.  (The ChromaDB adapter calls the backend only for a
\* collection it holds; a search with a rejected name calls no backend.)
C18_SearchFailurePropagates ==
    (/\ last.op = "search"
     /\ last.fail # "none"
     /\ NameAccepted(backend, last.coll)
     /\ backend = "chromadb" => last.existed)
        => last.outcome = "raise"

\* The records a search of the collection named c can return.
ContentsOf(c) ==
    IF CollKey(backend, c) \in DOMAIN store THEN store[CollKey(backend, c)]
    ELSE {}

\* C20: a call that names one collection leaves the contents of every
\* collection of another name as they were: nothing added to one name shows
\* up under another, and a deletion under one name removes nothing of
\* another.
C20_CollectionsIsolated ==
    [][\A c \in CollNames : c # last'.coll => ContentsOf(c)' = ContentsOf(c)]_vars


----------------------------------------------------------------------------
(* Properties of the concurrent uploads, checked under SpecUploads.        *)

\* The text a stored record holds: Pinecone keeps it in the metadata.
StoredContent(r) ==
    IF backend = "pinecone" THEN r.metadata["content"] ELSE r.content

\* A request the handler has nothing to refuse for: a PDF filename, a size
\* within the limit, a file with text, a name the backend accepts, and a
\* backend that answers.
Ingestable(u) ==
    /\ EndsWithPdf(u.filename)
    /\ u.size = "within"
    /\ ProcessPdf(u.pages, u.filename, u.document_id, EmptyMeta).documents # <<>>
    /\ NameAccepted(backend, u.collection_name)
    /\ u.fail = "none"

\* The collection holds every chunk of the request's document: under the
\* chunk's id there is a record with the chunk's text and the document's id.
HoldsEveryChunk(u) ==
    \A k \in 1..Len(u.documents) :
      \E r \in ContentsOf(u.collection_name) :
        /\ r.id = u.documents[k].doc_id
        /\ StoredContent(r) = u.documents[k].content
        /\ r.metadata["document_id"] = u.document_id

\* The ids of the chunks of the request's document.
ChunkIdsOf(u) == {u.documents[k].doc_id : k \in 1..Len(u.documents)}

\* C21: of two upload requests that interleave at the awaits of the handler,
\* each ingestable one that has ended was answered 200 with the ids of all
\* its chunks, and from then on its collection holds every one of its chunks
\* with its own text, whatever the other request does; when both went into
\* one collection their chunk ids are disjoint and at most one of the two
\* calls created the collection.
C21_ConcurrentUploadsComplete ==
    /\ \A i \in Uploaders :
         (uploads[i].pos = "done" /\ Ingestable(uploads[i]))
            => /\ uploads[i].status = 200
               /\ uploads[i].documents # <<>>
               /\ uploads[i].chunks_ids =
                     [k \in 1..Len(uploads[i].documents) |->
                        uploads[i].documents[k].doc_id]
               /\ HoldsEveryChunk(uploads[i])
    /\ \A i, j \in Uploaders :
         (/\ i # j
          /\ uploads[i].pos = "done" /\ Ingestable(uploads[i])
          /\ uploads[j].pos = "done" /\ Ingestable(uploads[j])
          /\ CollKey(backend, uploads[i].collection_name)
                = CollKey(backend, uploads[j].collection_name))
            => /\ ChunkIdsOf(uploads[i]) \cap ChunkIdsOf(uploads[j]) = {}
               /\ ~ (uploads[i].created /\ uploads[j].created)

\* Both requests went into one collection that did not exist before, the
\* first one's add_documents ran while the second was between two awaits,
\* and both were answered 200.
C21_Witness ==
    /\ uploads[1].pos = "done" /\ uploads[2].pos = "done"
    /\ uploads[1].status = 200 /\ uploads[2].status = 200
    /\ uploads[1].collection_name = uploads[2].collection_name
    /\ uploads[1].created /\ uploads[1].overlapped
    /\ uploads[1].pages # uploads[2].pages

====
